---- MODULE Spec2Model ----
(***************************************************************************)
(* gain-listener: bind a TLS listener through the host's listener service, *)
(* accept connections from the listen stream, split off the close handle.  *)
(* The model follows src/src/lib.rs; the generated wire records            *)
(* (listener_generated.rs) and the gain stream primitive are modelled at   *)
(* their boundary.                                                         *)
(***************************************************************************)
EXTENDS Integers, Sequences, FiniteSets, TLC

VARIABLES
    phase,        \* "Unbound" | "Bound" | "Split" | "Failed" | "Panicked"
    opt,          \* BindOptions given to bind_tls
    reply,        \* the host's reply to the bind call
    bound,        \* what bind_tls resolved to
    garbled,      \* the reply was not empty and not a well-formed Binding record
    calls,        \* SERVICE.call exchanges made
    roots,        \* get_root::<flat::Binding> reads made
    streams,      \* SERVICE.input_stream calls made
    pairs,        \* (Acceptor, CloseStream) pairs split() has returned
    closeState,   \* the CloseStream of split(): "none" | "held" | "closed" |
                  \* "dropped" | "closed_dropped"
    chanClosed,   \* the receive side has been closed through the CloseStream
    hostEof,      \* the host has ended the listen stream
    wire,         \* bytes of accept records the host has sent, not yet delivered
    sent,         \* the records those bytes belong to, oldest first
    pc,           \* the accept() call: "idle" | "recv" | "resolved"
    via,          \* accept() was invoked on the "Listener" or the "Acceptor"
    result,       \* accept's Cell<Option<Result<Conn, AcceptError>>>
    buffer,       \* accept's RefCell<Vec<u8>>
    more,         \* what the receptor last returned (ACCEPT_SIZE before any delivery)
    decodes,      \* get_root::<flat::Accept> calls made by this accept()
    lookups,      \* SERVICE.stream calls made by this accept()
    taken,        \* the bytes handed to the receptor during this accept()
    got,          \* the record the host sent that this accept() has received in full
    pieces,       \* non-empty chunks handed to the receptor during this accept(),
                  \* counted up to MaxPieces
    zeroSeen,     \* an empty chunk was handed to the receptor during this accept()
    closedBefore, \* the CloseStream was closed or dropped before this accept() began
    lastResult,   \* what the last accept() returned
    closedSeen,   \* accept() calls that returned an error of kind Closed, up to 2
    addrIn,       \* address codec: the socket address the host packs
    packed,       \* address codec: its wire form (a, b, c, d, port)
    addrOut       \* address codec: the peer address accept() decodes from it

vars == <<phase, opt, reply, bound, garbled, calls, roots, streams, pairs, closeState, chanClosed, hostEof, wire, sent,
          pc, via, result, buffer, more, decodes, lookups, taken, got,
          pieces, zeroSeen, closedBefore, lastResult, closedSeen,
          addrIn, packed, addrOut>>

bindVars == <<phase, opt, reply, bound, garbled, calls, roots, streams, pairs>>
chanVars == <<closeState, chanClosed, hostEof, wire, sent>>
addrVars == <<addrIn, packed, addrOut>>
callVars == <<pc, via, result, buffer, more, decodes, lookups, taken, got, pieces,
              zeroSeen, closedBefore, lastResult, closedSeen>>

----------------------------------------------------------------------------
(* Integer widths *)

Pow2(n) == 2 ^ n

U16(x) == x % Pow2(16)

\* a u32, held as its high and low 16 bits
U32(hi, lo) == [hi |-> hi, lo |-> lo]

IsZero32(x) == x.hi = 0 /\ x.lo = 0

\* (x >> 16) as u16 on a u32
Shr16AsU16(x) == U16(x.hi)

\* the high half is taken where the low one is meant
Shr0AsU16_high(x) == U16(x.hi)

\* (x >> 0) as u16 on a u32
Shr0AsU16(x) == U16(x.lo)

\* the i16 read from two little-endian bytes
I16OfBytes(lo, hi) ==
    LET u == lo + 256 * hi IN IF u >= Pow2(15) THEN u - Pow2(16) ELSE u

\* the two little-endian bytes of an i16
BytesOfI16(x) ==
    LET u == IF x < 0 THEN x + Pow2(16) ELSE x IN <<u % 256, u \div 256>>

BytesOfU16(x) == <<x % 256, x \div 256>>

BytesOfU32(x) == BytesOfU16(x.lo) \o BytesOfU16(x.hi)

U16OfBytes(s, at) == s[at] + 256 * s[at + 1]

U32OfBytes(s, at) == U32(U16OfBytes(s, at + 2), U16OfBytes(s, at))

----------------------------------------------------------------------------
(* Wire values of listener_generated.rs *)

flat_AcceptSize_Basic == 24

ACCEPT_SIZE == flat_AcceptSize_Basic

flat_BindError_None == 0
flat_BindError_TooManyBindings == 1
flat_BindError_AlreadyBound == 2
flat_BindError_InvalidName == 3
flat_BindError_NameTooLong == 4
flat_BindError_UnsupportedPort == 5
flat_BindError_InvalidAcceptSize == 6

flat_AcceptError_None == 0

\* the accept record: error (i16), conn_id, addr (4 x u32), port (u16)
EncodeAccept(r) ==
    BytesOfI16(r.error) \o BytesOfU32(r.conn_id)
        \o BytesOfU32(r.a) \o BytesOfU32(r.b) \o BytesOfU32(r.c) \o BytesOfU32(r.d)
        \o BytesOfU16(r.port)

\* get_root::<flat::Accept>(bytes).basic().unwrap() and its field accessors
BasicAccept(s) ==
    [error   |-> I16OfBytes(s[1], s[2]),
     conn_id |-> U32OfBytes(s, 3),
     a       |-> U32OfBytes(s, 7),
     b       |-> U32OfBytes(s, 11),
     c       |-> U32OfBytes(s, 15),
     d       |-> U32OfBytes(s, 19),
     port    |-> U16OfBytes(s, 23)]

----------------------------------------------------------------------------
(* Errors *)

BindError_new(flat) == [flat |-> flat]

\* the error of an unsupported call is made from the UnsupportedPort code
BindError_unsupported_as_port == BindError_new(flat_BindError_UnsupportedPort)

BindError_unsupported_call == BindError_new(flat_BindError_None)

\* the arms of two kinds exchanged
BindError_kind_swapped(e) ==
    CASE e.flat = flat_BindError_TooManyBindings -> "TooManyBindings"
      [] e.flat = flat_BindError_AlreadyBound    -> "InvalidName"
      [] e.flat = flat_BindError_InvalidName     -> "AlreadyBound"
      [] e.flat = flat_BindError_NameTooLong     -> "NameTooLong"
      [] e.flat = flat_BindError_UnsupportedPort -> "UnsupportedPort"
      [] OTHER                                   -> "Other"

BindError_kind(e) ==
    CASE e.flat = flat_BindError_TooManyBindings -> "TooManyBindings"
      [] e.flat = flat_BindError_AlreadyBound    -> "AlreadyBound"
      [] e.flat = flat_BindError_InvalidName     -> "InvalidName"
      [] e.flat = flat_BindError_NameTooLong     -> "NameTooLong"
      [] e.flat = flat_BindError_UnsupportedPort -> "UnsupportedPort"
      [] OTHER                                   -> "Other"

BindError_as_i16(e) == e.flat

Digit(n) == CASE n = 0 -> "0" [] n = 1 -> "1" [] n = 2 -> "2" [] n = 3 -> "3"
              [] n = 4 -> "4" [] n = 5 -> "5" [] n = 6 -> "6" [] n = 7 -> "7"
              [] n = 8 -> "8" [] n = 9 -> "9"

RECURSIVE Decimal(_)
Decimal(n) == IF n < 10 THEN Digit(n) ELSE Decimal(n \div 10) \o Digit(n % 10)

\* i16's Display
I16_fmt(x) == IF x < 0 THEN "-" \o Decimal(0 - x) ELSE Decimal(x)

BindError_fmt(e) ==
    CASE BindError_kind(e) = "TooManyBindings" -> "too many bindings"
      [] BindError_kind(e) = "AlreadyBound"    -> "already bound"
      [] BindError_kind(e) = "InvalidName"     -> "invalid name"
      [] BindError_kind(e) = "NameTooLong"     -> "name too long"
      [] BindError_kind(e) = "UnsupportedPort" -> "unsupported port"
      [] OTHER                                 -> I16_fmt(BindError_as_i16(e))

AcceptError_new(flat) == [flat |-> flat]

\* the closed error built with another code
AcceptError_listener_other == AcceptError_new(1)

AcceptError_listener_closed == AcceptError_new(flat_AcceptError_None)

AcceptError_kind(e) ==
    IF e.flat = flat_AcceptError_None THEN "Closed" ELSE "Other"

\* the code cast to a byte
AcceptError_as_u8(e) == e.flat % 256

AcceptError_as_i16(e) == e.flat

AcceptError_fmt(e) ==
    IF AcceptError_kind(e) = "Closed" THEN "closed"
    ELSE I16_fmt(AcceptError_as_i16(e))

\* Result<_, _> values
Ok(v) == [tag |-> "Ok", val |-> v]
Err(e) == [tag |-> "Err", val |-> e]
IsOk(r) == r.tag = "Ok"
IsErr(r) == r.tag = "Err"

----------------------------------------------------------------------------
(* Addresses *)

\* the octets taken in little-endian order
Ipv4Addr_from_le(x) == <<x.lo % 256, x.lo \div 256, x.hi % 256, x.hi \div 256>>

\* Ipv4Addr::from(u32)
Ipv4Addr_from(x) == <<x.hi \div 256, x.hi % 256, x.lo \div 256, x.lo % 256>>

SocketAddrV4_new(ip, port) == [v |-> "V4", ip |-> ip, port |-> port]

Ipv6Addr_new(g0, g1, g2, g3, g4, g5, g6, g7) == <<g0, g1, g2, g3, g4, g5, g6, g7>>

SocketAddrV6_new(ip, port, flowinfo, scope_id) ==
    [v |-> "V6", ip |-> ip, port |-> port, flowinfo |-> flowinfo, scope_id |-> scope_id]

\* the peer address of a decoded record
PeerAddr(r) ==
    IF IsZero32(r.b) /\ IsZero32(r.c) /\ IsZero32(r.d)
    THEN SocketAddrV4_new(Ipv4Addr_from(r.a), r.port)
    ELSE SocketAddrV6_new(
             Ipv6Addr_new(Shr16AsU16(r.a), Shr0AsU16(r.a),
                          Shr16AsU16(r.b), Shr0AsU16(r.b),
                          Shr16AsU16(r.c), Shr0AsU16(r.c),
                          Shr16AsU16(r.d), Shr0AsU16(r.d)),
             r.port, 0, 0)

Conn(stream, peer_addr) == [stream |-> stream, peer_addr |-> peer_addr]

\* SERVICE.stream(conn_id): the stream keyed by the id
ServiceStream(id) == [kind |-> "RecvWriteStream", id |-> id]

\* SERVICE.input_stream(listen_id)
ServiceInputStream(id) == [kind |-> "RecvStream", id |-> id]

----------------------------------------------------------------------------
(* bind_tls *)

NoHost == "<none>"

EmptyReply ==
    [empty |-> TRUE, error |-> 0, host |-> NoHost, port |-> 0, listen_id |-> 0]

Binding(hostname, port) == [hostname |-> hostname, port |-> port]

Listener(stream, addr) == [stream |-> stream, addr |-> addr]

Panic == [tag |-> "Panic", val |-> "panic"]

\* the binding takes the requested port, not the one the host reports
bind_tls_requested_port(o, r) ==
    IF r.empty THEN Err(BindError_unsupported_call)
    ELSE IF r.error # flat_BindError_None
         THEN IF r.error = flat_BindError_InvalidAcceptSize
              THEN Panic
              ELSE Err(BindError_new(r.error))
         ELSE IF r.host = NoHost
              THEN Panic
              ELSE Ok(Listener(ServiceInputStream(r.listen_id),
                               Binding(r.host, o.port)))

\* the InvalidAcceptSize code is returned like any other code
bind_tls_no_panic(o, r) ==
    IF r.empty THEN Err(BindError_unsupported_call)
    ELSE IF r.error # flat_BindError_None
         THEN Err(BindError_new(r.error))
         ELSE IF r.host = NoHost
              THEN Panic
              ELSE Ok(Listener(ServiceInputStream(r.listen_id),
                               Binding(r.host, r.port)))

\* the reply is decoded without the test for an empty one
bind_tls_decodes_empty(o, r) ==
    IF r.error # flat_BindError_None
    THEN IF r.error = flat_BindError_InvalidAcceptSize
         THEN Panic
         ELSE Err(BindError_new(r.error))
    ELSE IF r.host = NoHost
         THEN Panic
         ELSE Ok(Listener(ServiceInputStream(r.listen_id),
                          Binding(r.host, r.port)))

\* bind_tls: the closure given to SERVICE.call, applied to the reply r to the
\* request made from the options o
bind_tls(o, r) ==
    IF r.empty THEN Err(BindError_unsupported_call)
    ELSE IF r.error # flat_BindError_None
         THEN IF r.error = flat_BindError_InvalidAcceptSize
              THEN Panic
              ELSE Err(BindError_new(r.error))
         ELSE IF r.host = NoHost
              THEN Panic
              ELSE Ok(Listener(ServiceInputStream(r.listen_id),
                               Binding(r.host, r.port)))

\* get_root::<flat::Binding> reads the closure makes on the reply r
bind_tls_roots(r) == IF r.empty THEN 0 ELSE 1

\* the receive stream is opened before the error code is looked at
bind_tls_streams_eager(r) == IF r.empty THEN 0 ELSE 1

\* SERVICE.input_stream calls the closure makes on the reply r
bind_tls_streams(r) ==
    IF r.empty THEN 0
    ELSE IF r.error # flat_BindError_None THEN 0
    ELSE 1

----------------------------------------------------------------------------
(* accept *)

\* the chunk replaces what was accumulated instead of following it
extend_replacing(b, data) == data

\* b.extend_from_slice(data)
extend_from_slice(b, data) == b \o data

\* one byte more than the record is asked for
MoreOf_one_more(b) == ACCEPT_SIZE + 1 - Len(b)

\* let more = ACCEPT_SIZE - b.len(); recv hands over no more than was asked for,
\* so b.len() <= ACCEPT_SIZE and the usize subtraction does not wrap
MoreOf(b) == ACCEPT_SIZE - Len(b)

\* the record's error code is wrapped without the test for None
DecodeResult_unchecked(b) == Err(AcceptError_new(BasicAccept(b).error))

\* what result.set(...) stores for a complete record
DecodeResult(b) ==
    LET r == BasicAccept(b) IN
    IF r.error = flat_AcceptError_None
    THEN Ok(Conn(ServiceStream(r.conn_id), PeerAddr(r)))
    ELSE Err(AcceptError_new(r.error))

\* SERVICE.stream calls made while decoding a complete record
DecodeLookups(b) ==
    IF BasicAccept(b).error = flat_AcceptError_None THEN 1 ELSE 0

\* the receptor given to stream.recv, applied to one chunk
Receptor(b, res, data) ==
    LET b2 == extend_from_slice(b, data)
        m  == MoreOf(b2)
    IN  [buffer  |-> b2,
         more    |-> m,
         result  |-> IF m = 0 THEN DecodeResult(b2) ELSE res,
         decoded |-> IF m = 0 THEN 1 ELSE 0,
         looked  |-> IF m = 0 THEN DecodeLookups(b2) ELSE 0]

\* the call starts from an error that is not the closed one
InitialResult_other == Err(AcceptError_new(1))

\* let result = Cell::new(Some(Err(AcceptError::listener_closed())))
InitialResult == Err(AcceptError_listener_closed)

----------------------------------------------------------------------------
(* Inputs *)

\* accept records the host's listener service sends
AcceptRecords ==
    LET Z == U32(0, 0) IN
    { [error |-> 0, conn_id |-> U32(0, 7), a |-> U32(32512, 1), b |-> Z, c |-> Z,
       d |-> Z, port |-> 51000],
      [error |-> 0, conn_id |-> U32(65535, 65535), a |-> U32(8193, 3512),
       b |-> U32(65535, 0), c |-> U32(0, 65535), d |-> U32(32768, 1), port |-> 65535],
      [error |-> 0, conn_id |-> Z, a |-> Z, b |-> Z, c |-> Z, d |-> Z, port |-> 0],
      [error |-> 1, conn_id |-> U32(0, 9), a |-> U32(2560, 1), b |-> Z, c |-> Z,
       d |-> Z, port |-> 8080],
      [error |-> -2, conn_id |-> Z, a |-> Z, b |-> Z, c |-> Z, d |-> Z, port |-> 0] }

NoPrefix == "<none>"

BindOptionsSet ==
    { [port |-> 443, prefix |-> "www"], [port |-> 8080, prefix |-> NoPrefix] }

\* replies of the host to the bind call
BindReplies ==
    {EmptyReply}
    \cup { [empty |-> FALSE, error |-> flat_BindError_None, host |-> h, port |-> p,
            listen_id |-> 3] : h \in {"www.example.test", NoHost}, p \in {443} }
    \cup { [empty |-> FALSE, error |-> e, host |-> NoHost, port |-> 0, listen_id |-> 0] :
            e \in {-1, 1, 2, 3, 4, 5, 6, 7, 300} }

\* what get_root::<flat::Binding>, which verifies nothing, may read from a reply
\* that is not empty and not a well-formed record: any record; a read that
\* faults ends the closure as the unwrap of a missing host does
GarbledViews == BindReplies \ {EmptyReply}

\* records the host may have sent ahead of their delivery
MaxPending == 1

\* chunks of one accept() that are told apart by their count
MaxPieces == 2

NoRecord == [error |-> 0, conn_id |-> "none"]

NoResult == [tag |-> "None", val |-> "none"]

----------------------------------------------------------------------------
(* State machine *)

NoAddr == [v |-> "none"]

NoPacked == [port |-> "none"]

ListenerInit ==
    /\ phase = "Unbound"
    /\ opt = [port |-> 0, prefix |-> NoPrefix]
    /\ reply = EmptyReply
    /\ bound = NoResult
    /\ garbled = FALSE
    /\ calls = 0
    /\ roots = 0
    /\ streams = 0
    /\ pairs = 0
    /\ closeState = "none"
    /\ chanClosed = FALSE
    /\ hostEof = FALSE
    /\ wire = <<>>
    /\ sent = <<>>
    /\ pc = "idle"
    /\ via = "none"
    /\ result = NoResult
    /\ buffer = <<>>
    /\ more = 0
    /\ decodes = 0
    /\ lookups = 0
    /\ taken = <<>>
    /\ got = NoRecord
    /\ pieces = 0
    /\ zeroSeen = FALSE
    /\ closedBefore = FALSE
    /\ lastResult = NoResult
    /\ closedSeen = 0

Init ==
    /\ ListenerInit
    /\ addrIn = NoAddr
    /\ packed = NoPacked
    /\ addrOut = NoAddr

\* bind_tls from the request to the resolution of SERVICE.call, the reply being
\* r as the closure reads it
BindExchange(o, r) ==
    LET res == bind_tls(o, r) IN
    /\ phase = "Unbound"
    /\ opt' = o
    /\ reply' = r
    /\ bound' = res
    /\ phase' = CASE res.tag = "Ok"  -> "Bound"
                  [] res.tag = "Err" -> "Failed"
                  [] OTHER           -> "Panicked"
    /\ calls' = calls + 1
    /\ roots' = roots + bind_tls_roots(r)
    /\ streams' = streams + bind_tls_streams(r)
    /\ pairs' = pairs
    /\ UNCHANGED chanVars
    /\ UNCHANGED callVars
    /\ UNCHANGED addrVars

\* Listener::bind_tls: one SERVICE.call, the reply decoded by the closure
BindTls ==
    /\ \E o \in BindOptionsSet, r \in BindReplies : BindExchange(o, r)
    /\ garbled' = FALSE

\* Listener::bind_tls when the host's reply is garbled
BindTlsGarbled ==
    /\ \E o \in BindOptionsSet, r \in GarbledViews : BindExchange(o, r)
    /\ garbled' = TRUE

\* split() borrows the listener and leaves it usable
Split_keeps_listener ==
    /\ phase = "Bound"
    /\ pc # "recv"
    /\ phase' = "Bound"
    /\ closeState' = "held"
    /\ pairs' = pairs + 1
    /\ UNCHANGED <<opt, reply, bound, garbled, calls, roots, streams>>
    /\ UNCHANGED <<chanClosed, hostEof, wire, sent>>
    /\ UNCHANGED callVars
    /\ UNCHANGED addrVars

\* Listener::split: the listener is consumed, its stream split in two
Split ==
    /\ phase = "Bound"
    /\ pc # "recv"
    /\ phase' = "Split"
    /\ closeState' = "held"
    /\ pairs' = pairs + 1
    /\ UNCHANGED <<opt, reply, bound, garbled, calls, roots, streams>>
    /\ UNCHANGED <<chanClosed, hostEof, wire, sent>>
    /\ UNCHANGED callVars
    /\ UNCHANGED addrVars

\* the accumulator of the earlier call is kept
AcceptStart_keeps_buffer(who) ==
    /\ pc # "recv"
    /\ pc' = "recv"
    /\ via' = who
    /\ result' = InitialResult
    /\ buffer' = buffer
    /\ more' = ACCEPT_SIZE
    /\ decodes' = 0
    /\ lookups' = 0
    /\ taken' = <<>>
    /\ got' = NoRecord
    /\ pieces' = 0
    /\ zeroSeen' = FALSE
    /\ closedBefore' = chanClosed
    /\ UNCHANGED <<lastResult, closedSeen>>
    /\ UNCHANGED bindVars
    /\ UNCHANGED addrVars
    /\ UNCHANGED <<closeState, chanClosed, hostEof, wire, sent>>

\* the first lines of accept(), up to the suspension in stream.recv
AcceptStart(who) ==
    /\ pc # "recv"
    /\ pc' = "recv"
    /\ via' = who
    /\ result' = InitialResult
    /\ buffer' = <<>>
    /\ more' = ACCEPT_SIZE
    /\ decodes' = 0
    /\ lookups' = 0
    /\ taken' = <<>>
    /\ got' = NoRecord
    /\ pieces' = 0
    /\ zeroSeen' = FALSE
    /\ closedBefore' = chanClosed
    /\ UNCHANGED <<lastResult, closedSeen>>
    /\ UNCHANGED bindVars
    /\ UNCHANGED addrVars
    /\ UNCHANGED <<closeState, chanClosed, hostEof, wire, sent>>

\* Listener::accept
ListenerAccept ==
    /\ phase = "Bound"
    /\ AcceptStart("Listener")

\* Acceptor::accept
AcceptorAccept ==
    /\ phase = "Split"
    /\ AcceptStart("Acceptor")

\* the host sends one more accept record
HostSend ==
    /\ phase \in {"Bound", "Split"}
    /\ ~hostEof
    /\ ~chanClosed
    /\ Len(wire) + ACCEPT_SIZE <= MaxPending * ACCEPT_SIZE
    /\ \E r \in AcceptRecords :
          /\ wire' = wire \o EncodeAccept(r)
          /\ sent' = Append(sent, r)
    /\ UNCHANGED bindVars
    /\ UNCHANGED addrVars
    /\ UNCHANGED <<closeState, chanClosed, hostEof>>
    /\ UNCHANGED callVars

Min(x, y) == IF x < y THEN x ELSE y

\* stream.recv hands the receptor the next n bytes, at most as many as it asked for
Deliver ==
    /\ pc = "recv"
    /\ more > 0
    /\ ~chanClosed
    /\ ~hostEof
    /\ \E n \in 0 .. Min(more, Len(wire)) :
          LET data == SubSeq(wire, 1, n)
              out  == Receptor(buffer, result, data)
          IN  /\ buffer' = out.buffer
              /\ result' = out.result
              /\ more' = out.more
              /\ decodes' = decodes + out.decoded
              /\ lookups' = lookups + out.looked
              /\ wire' = SubSeq(wire, n + 1, Len(wire))
              /\ sent' = IF Len(wire) - n <= (Len(sent) - 1) * ACCEPT_SIZE
                         THEN Tail(sent) ELSE sent
              /\ taken' = taken \o data
              /\ got' = IF Len(taken) < ACCEPT_SIZE /\ Len(taken) + n = ACCEPT_SIZE
                        THEN Head(sent) ELSE got
              /\ pieces' = IF n > 0 THEN Min(pieces + 1, MaxPieces) ELSE pieces
              /\ zeroSeen' = (zeroSeen \/ n = 0)
    /\ UNCHANGED <<pc, via, closedBefore, lastResult, closedSeen>>
    /\ UNCHANGED bindVars
    /\ UNCHANGED addrVars
    /\ UNCHANGED <<closeState, chanClosed, hostEof>>

\* stream.recv completes (the receptor wants no more, or the stream has ended)
\* and accept() returns result.take().unwrap()
AcceptReturn ==
    /\ pc = "recv"
    /\ more = 0 \/ chanClosed \/ hostEof
    /\ pc' = "resolved"
    /\ lastResult' = result
    /\ result' = NoResult
    /\ closedSeen' = IF IsErr(result) /\ AcceptError_kind(result.val) = "Closed"
                     THEN Min(closedSeen + 1, 2) ELSE closedSeen
    /\ UNCHANGED <<via, buffer, more, decodes, lookups, taken, got, pieces, zeroSeen,
                   closedBefore>>
    /\ UNCHANGED bindVars
    /\ UNCHANGED addrVars
    /\ UNCHANGED <<closeState, chanClosed, hostEof, wire, sent>>

\* CloseStream::close on the handle split() returned
CloseHandleClose ==
    /\ phase = "Split"
    /\ closeState = "held"
    /\ closeState' = "closed"
    /\ chanClosed' = TRUE
    /\ UNCHANGED callVars
    /\ UNCHANGED bindVars
    /\ UNCHANGED addrVars
    /\ UNCHANGED <<hostEof, wire, sent>>

\* the CloseStream is dropped, closed before or not
CloseHandleDrop ==
    /\ phase = "Split"
    /\ closeState \in {"held", "closed"}
    /\ closeState' = IF closeState = "closed" THEN "closed_dropped" ELSE "dropped"
    /\ chanClosed' = TRUE
    /\ UNCHANGED callVars
    /\ UNCHANGED bindVars
    /\ UNCHANGED addrVars
    /\ UNCHANGED <<hostEof, wire, sent>>

\* the host ends the listen stream
HostEnd ==
    /\ phase \in {"Bound", "Split"}
    /\ ~hostEof
    /\ hostEof' = TRUE
    /\ UNCHANGED callVars
    /\ UNCHANGED bindVars
    /\ UNCHANGED addrVars
    /\ UNCHANGED <<closeState, chanClosed, wire, sent>>

Next ==
    \/ BindTls
    \/ Split
    \/ ListenerAccept
    \/ AcceptorAccept
    \/ HostSend
    \/ Deliver
    \/ AcceptReturn
    \/ CloseHandleClose
    \/ CloseHandleDrop
    \/ HostEnd

Spec == Init /\ [][Next]_vars

\* recv's future completes once the stream has ended or the receptor wants no more
FairSpec == Spec /\ WF_vars(AcceptReturn)

\* bind and what follows it when the host's reply may also be garbled and the
\* host sends no accept record
BindNext ==
    \/ BindTls
    \/ BindTlsGarbled
    \/ Split
    \/ ListenerAccept
    \/ AcceptorAccept
    \/ AcceptReturn
    \/ CloseHandleClose
    \/ CloseHandleDrop
    \/ HostEnd

BindSpec == Init /\ [][BindNext]_vars

----------------------------------------------------------------------------
(* Address codec: what the host packs, run through the decoding of accept() *)

Octets == {0, 127, 255}

Groups == {0, 1, 65535}

Ports == {0, 443, 65535}

SocketAddrs ==
    { SocketAddrV4_new(<<o1, o2, o3, o4>>, p) :
          o1 \in Octets, o2 \in Octets, o3 \in Octets, o4 \in Octets, p \in Ports }
    \cup { SocketAddrV6_new(g, p, f, 0) :
              g \in [1 .. 8 -> Groups], p \in {0, 65535}, f \in {0, 5} }

\* the host's packing of a peer address into the words a, b, c, d and the port
PackAddr(addr) ==
    IF addr.v = "V4"
    THEN [a |-> U32(addr.ip[1] * 256 + addr.ip[2], addr.ip[3] * 256 + addr.ip[4]),
          b |-> U32(0, 0), c |-> U32(0, 0), d |-> U32(0, 0), port |-> addr.port]
    ELSE [a |-> U32(addr.ip[1], addr.ip[2]), b |-> U32(addr.ip[3], addr.ip[4]),
          c |-> U32(addr.ip[5], addr.ip[6]), d |-> U32(addr.ip[7], addr.ip[8]),
          port |-> addr.port]

\* the accept record that carries the packed address
AddrRecord(w) ==
    [error |-> flat_AcceptError_None, conn_id |-> U32(0, 1),
     a |-> w.a, b |-> w.b, c |-> w.c, d |-> w.d, port |-> w.port]

AddrInit ==
    /\ ListenerInit
    /\ addrIn \in SocketAddrs
    /\ packed = NoPacked
    /\ addrOut = NoAddr

\* the host packs the peer address
AddrPack ==
    /\ addrIn # NoAddr
    /\ packed = NoPacked
    /\ packed' = PackAddr(addrIn)
    /\ UNCHANGED <<addrIn, addrOut>>
    /\ UNCHANGED <<bindVars, chanVars, callVars>>

\* the receptor decodes the complete record that carries it
AddrUnpack ==
    /\ packed # NoPacked
    /\ addrOut = NoAddr
    /\ addrOut' = DecodeResult(EncodeAccept(AddrRecord(packed))).val.peer_addr
    /\ UNCHANGED <<addrIn, packed>>
    /\ UNCHANGED <<bindVars, chanVars, callVars>>

AddrNext == AddrPack \/ AddrUnpack

AddrSpec == AddrInit /\ [][AddrNext]_vars

----------------------------------------------------------------------------
(* Properties *)

\* an accept() call has been made and this is its result so far, or what it returned
InCall == pc \in {"recv", "resolved"}

CallResult == IF pc = "recv" THEN result ELSE lastResult

FullRecord == InCall /\ Len(taken) = ACCEPT_SIZE

IsClosedErr(r) == IsErr(r) /\ AcceptError_kind(r.val) = "Closed"

\* C1: however the bytes of one accept record are cut into the chunks handed to the
\* receptor (empty chunks included), once all ACCEPT_SIZE bytes have been handed
\* over the call holds, and then returns, the result that the same bytes give when
\* handed over as a single chunk, and the receptor asks for no more.
C1_FragmentationInvariance ==
    FullRecord =>
        LET whole == Receptor(<<>>, InitialResult, taken) IN
        /\ CallResult = whole.result
        /\ buffer = whole.buffer
        /\ more = 0

\* a record that arrived in several chunks, an empty one among them, and was accepted
C1_Witness ==
    /\ pc = "resolved"
    /\ Len(taken) = ACCEPT_SIZE
    /\ pieces >= 2
    /\ zeroSeen
    /\ IsOk(lastResult)

\* C2: an accept() whose recv completed with fewer than ACCEPT_SIZE bytes
\* accumulated (none included) returns an error of kind Closed, whatever the bytes.
C2_ClosedBeforeFullRecord ==
    (pc = "resolved" /\ Len(taken) < ACCEPT_SIZE) =>
        /\ IsErr(lastResult)
        /\ AcceptError_kind(lastResult.val) = "Closed"

\* the stream ended under an accept() that held part of a record with non-zero bytes
C2_Witness ==
    /\ pc = "resolved"
    /\ Len(taken) > 0
    /\ Len(taken) < ACCEPT_SIZE
    /\ \E i \in 1 .. Len(taken) : taken[i] # 0
    /\ IsClosedErr(lastResult)

\* the CloseStream was closed or dropped while this accept() on the Acceptor was
\* suspended with less than a full record
ClosedDuringCall ==
    /\ InCall
    /\ via = "Acceptor"
    /\ chanClosed
    /\ ~closedBefore
    /\ Len(taken) < ACCEPT_SIZE

\* C3: when the CloseStream is closed under a suspended accept() that holds less
\* than a full record, the step that closes it leaves the accumulator and the
\* result cell alone, the call returns, and it returns an error of kind Closed
\* without having decoded the bytes it held.
C3_CloseDuringAccept ==
    /\ []((ClosedDuringCall /\ pc = "resolved") =>
              (IsClosedErr(lastResult) /\ decodes = 0 /\ lookups = 0))
    /\ [][(chanClosed' # chanClosed) =>
              (buffer' = buffer /\ result' = result /\ more' = more /\ pc' = pc)]_vars
    /\ ((ClosedDuringCall /\ pc = "recv")
            ~> (ClosedDuringCall /\ pc = "resolved" /\ IsClosedErr(lastResult)))

\* the handle was closed under an accept() holding part of a record, which returned
C3_Witness ==
    /\ ClosedDuringCall
    /\ pc = "resolved"
    /\ Len(taken) > 0
    /\ ~hostEof
    /\ IsClosedErr(lastResult)

\* this accept() on the Acceptor began after the CloseStream was closed or dropped
ClosedBeforeCall ==
    /\ InCall
    /\ via = "Acceptor"
    /\ closedBefore

\* C4: an accept() called on the Acceptor after the CloseStream was closed or
\* dropped receives nothing, returns, and returns an error of kind Closed.
C4_CloseBeforeAccept ==
    /\ [](ClosedBeforeCall =>
              /\ Len(taken) = 0
              /\ decodes = 0
              /\ pc = "resolved" => IsClosedErr(lastResult))
    /\ ((ClosedBeforeCall /\ pc = "recv")
            ~> (ClosedBeforeCall /\ pc = "resolved" /\ IsClosedErr(lastResult)))

\* the first accept() after an explicit close, with a record waiting, returned Closed
C4_Witness ==
    /\ ClosedBeforeCall
    /\ pc = "resolved"
    /\ closeState = "closed"
    /\ closedSeen = 1
    /\ ~hostEof
    /\ wire # <<>>
    /\ IsClosedErr(lastResult)

\* C5: once an accept() has returned an error of kind Closed, every accept() that
\* returns afterwards returns one too, and dropping a CloseStream that was already
\* closed changes nothing but the handle.
C5_ClosedIsSticky ==
    /\ []((closedSeen > 0 /\ pc = "resolved") => IsClosedErr(lastResult))
    /\ [][(closeState = "closed" /\ closeState' = "closed_dropped") =>
              (UNCHANGED <<chanClosed, hostEof, wire, sent>>
               /\ UNCHANGED callVars /\ UNCHANGED bindVars)]_vars

\* a second accept() returned Closed, the handle closed and then dropped
C5_Witness ==
    /\ pc = "resolved"
    /\ closedSeen = 2
    /\ closeState = "closed_dropped"
    /\ via = "Acceptor"
    /\ IsClosedErr(lastResult)

\* C6: the record is decoded exactly when the accumulated length has reached
\* ACCEPT_SIZE, once in the call; until then the result cell keeps its initial value
\* and no stream is looked up.
C6_NoPartialDecode ==
    /\ decodes = (IF FullRecord THEN 1 ELSE 0)
    /\ lookups <= decodes
    /\ (pc = "recv" /\ Len(taken) < ACCEPT_SIZE) => result = InitialResult
    /\ decodes > 0 => Len(buffer) = ACCEPT_SIZE

\* a record completed by its third or later chunk, decoded once
C6_Witness ==
    /\ pc = "recv"
    /\ FullRecord
    /\ pieces >= 2
    /\ decodes = 1

ExampleRecord ==
    [error |-> 0, conn_id |-> U32(0, 7), a |-> U32(32512, 1), b |-> U32(0, 0),
     c |-> U32(0, 0), d |-> U32(0, 0), port |-> 51000]

ExampleV6Record ==
    [error |-> 0, conn_id |-> U32(65535, 65535), a |-> U32(8193, 3512),
     b |-> U32(65535, 0), c |-> U32(0, 65535), d |-> U32(32768, 1), port |-> 65535]

\* C7: a complete record without an error gives Ok(Conn) with the stream looked up,
\* once, for the record's conn_id and the peer address decoded from its addr words
\* and port (conn_id 7, addr (0x7f000001, 0, 0, 0), port 51000 give
\* 127.0.0.1:51000); a call that holds an error has looked up no stream.
C7_ConnFromRecord ==
    /\ (FullRecord /\ got.error = flat_AcceptError_None) =>
           /\ IsOk(CallResult)
           /\ CallResult.val.stream = ServiceStream(got.conn_id)
           /\ CallResult.val.peer_addr = PeerAddr(got)
           /\ lookups = 1
    /\ (FullRecord /\ got = ExampleRecord) =>
           CallResult.val.peer_addr = [v |-> "V4", ip |-> <<127, 0, 0, 1>>, port |-> 51000]
    /\ (FullRecord /\ got = ExampleV6Record) =>
           CallResult.val.peer_addr =
               [v |-> "V6", ip |-> <<8193, 3512, 65535, 0, 0, 65535, 32768, 1>>,
                port |-> 65535, flowinfo |-> 0, scope_id |-> 0]
    /\ (InCall /\ IsErr(CallResult)) => lookups = 0

\* the example record was accepted
C7_Witness ==
    /\ pc = "resolved"
    /\ got = ExampleRecord
    /\ IsOk(lastResult)
    /\ lastResult.val.stream.id = U32(0, 7)
    /\ lookups = 1

\* C8: a complete record whose error code e is not None gives an AcceptError of
\* kind Other whose as_i16() is e.
C8_OtherKeepsCode ==
    (FullRecord /\ got.error # flat_AcceptError_None) =>
        /\ IsErr(CallResult)
        /\ AcceptError_kind(CallResult.val) = "Other"
        /\ AcceptError_as_i16(CallResult.val) = got.error

\* a record with a negative error code was returned as an error
C8_Witness ==
    /\ pc = "resolved"
    /\ FullRecord
    /\ got.error = -2
    /\ IsErr(lastResult)
    /\ AcceptError_as_i16(lastResult.val) = -2

\* the host replied with a well-formed success record
SuccessReply ==
    /\ phase # "Unbound"
    /\ ~reply.empty
    /\ reply.error = flat_BindError_None
    /\ reply.host # NoHost

\* C9: a bind whose reply reports success resolves to a Listener whose Binding has
\* the reply's host string and the reply's port, whatever port was requested; and
\* every Listener bind resolves to has them.
C9_BindingFromReply ==
    /\ SuccessReply =>
           /\ IsOk(bound)
           /\ bound.val.addr = [hostname |-> reply.host, port |-> reply.port]
    /\ IsOk(bound) =>
           /\ SuccessReply
           /\ bound.val.addr.hostname = reply.host
           /\ bound.val.addr.port = reply.port

\* port 8080 was requested and the host bound www.example.test:443
C9_Witness ==
    /\ phase = "Bound"
    /\ opt.port = 8080
    /\ bound.val.addr = [hostname |-> "www.example.test", port |-> 443]

\* the kind and the display text the claim gives for a bind error code
C10_Expected(code) ==
    CASE code = flat_BindError_TooManyBindings -> <<"TooManyBindings", "too many bindings">>
      [] code = flat_BindError_AlreadyBound    -> <<"AlreadyBound", "already bound">>
      [] code = flat_BindError_InvalidName     -> <<"InvalidName", "invalid name">>
      [] code = flat_BindError_NameTooLong     -> <<"NameTooLong", "name too long">>
      [] code = flat_BindError_UnsupportedPort -> <<"UnsupportedPort", "unsupported port">>
      [] code = -1                             -> <<"Other", "-1">>
      [] code = 7                              -> <<"Other", "7">>
      [] code = 300                            -> <<"Other", "300">>
      [] OTHER                                 -> <<"Other", I16_fmt(code)>>

\* C10: a reply whose error code is neither None nor InvalidAcceptSize makes bind
\* resolve to a BindError with that code, whose kind() is the kind named after the
\* code, or Other, and whose display is the kind's phrase, or the number for Other.
C10_BindErrorKinds ==
    (phase # "Unbound" /\ ~reply.empty
        /\ reply.error \notin {flat_BindError_None, flat_BindError_InvalidAcceptSize}) =>
        /\ phase = "Failed"
        /\ IsErr(bound)
        /\ BindError_as_i16(bound.val) = reply.error
        /\ BindError_kind(bound.val) = C10_Expected(reply.error)[1]
        /\ BindError_fmt(bound.val) = C10_Expected(reply.error)[2]

\* the host replied AlreadyBound
C10_Witness ==
    /\ phase = "Failed"
    /\ reply.error = flat_BindError_AlreadyBound
    /\ BindError_kind(bound.val) = "AlreadyBound"
    /\ BindError_fmt(bound.val) = "already bound"

\* C11: a reply that carries the InvalidAcceptSize code makes bind_tls panic: it
\* resolves neither to a Listener nor to a BindError, and no BindError that bind
\* resolves to carries that code.
C11_InvalidAcceptSizePanics ==
    /\ (phase # "Unbound" /\ ~reply.empty
            /\ reply.error = flat_BindError_InvalidAcceptSize) =>
           /\ phase = "Panicked"
           /\ bound = Panic
           /\ ~IsOk(bound)
           /\ ~IsErr(bound)
    /\ IsErr(bound) => BindError_as_i16(bound.val) # flat_BindError_InvalidAcceptSize

\* the host replied InvalidAcceptSize and the call panicked
C11_Witness ==
    /\ phase = "Panicked"
    /\ ~garbled
    /\ ~reply.empty
    /\ reply.error = flat_BindError_InvalidAcceptSize

\* C12: an empty reply makes bind resolve to the error of an unsupported call,
\* with nothing read from the reply: never to a Listener, and without a receive
\* stream opened or an accept() made.
C12_EmptyReplyUnsupported ==
    (phase # "Unbound" /\ reply.empty) =>
        /\ phase = "Failed"
        /\ bound = Err(BindError_unsupported_call)
        /\ ~IsOk(bound)
        /\ roots = 0
        /\ streams = 0
        /\ pc = "idle"
        /\ via = "none"

\* the host replied with no bytes
C12_Witness ==
    /\ phase = "Failed"
    /\ reply.empty
    /\ calls = 1
    /\ bound = Err(BindError_unsupported_call)

\* C13: a reply that is not empty and not a well-formed record makes bind
\* resolve to the error of an unsupported call, as an empty reply does.
C13_GarbledIsUnsupported ==
    (phase # "Unbound" /\ garbled) =>
        /\ phase = "Failed"
        /\ bound = Err(BindError_unsupported_call)

\* C13: what holds instead: the only reply that resolves to the error of an
\* unsupported call is the empty one; a garbled reply is read as a record.
C13_OnlyEmptyIsUnsupported ==
    /\ bound = Err(BindError_unsupported_call) => (reply.empty /\ ~garbled)
    /\ (phase # "Unbound" /\ garbled) =>
           /\ roots = 1
           /\ bound # Err(BindError_unsupported_call)

\* a garbled reply was read as a success record and bind resolved to a Listener
C13_Witness ==
    /\ garbled
    /\ phase = "Bound"
    /\ IsOk(bound)

\* the reply reports success: it is not empty and its error code is None
ReportsSuccess ==
    /\ phase # "Unbound"
    /\ ~reply.empty
    /\ reply.error = flat_BindError_None

\* C14: a bind makes one SERVICE.call and never another; the receive stream is
\* opened exactly when the reply reports success, a Listener exists only then,
\* and does whenever the success reply has its host; after a bind that resolved
\* to a BindError no stream was opened, no accept() is made and nothing changes.
C14_OneExchange ==
    /\ [](calls = IF phase = "Unbound" THEN 0 ELSE 1)
    /\ [](streams = IF ReportsSuccess THEN 1 ELSE 0)
    /\ [](IsOk(bound) <=> phase \in {"Bound", "Split"})
    /\ [](IsOk(bound) => ReportsSuccess)
    /\ []((ReportsSuccess /\ reply.host # NoHost) => IsOk(bound))
    /\ [](IsErr(bound) =>
             /\ phase = "Failed"
             /\ streams = 0
             /\ pc = "idle"
             /\ via = "none"
             /\ ~ENABLED ListenerAccept
             /\ ~ENABLED AcceptorAccept
             /\ ~ENABLED BindTls)
    /\ [][IsErr(bound) => UNCHANGED vars]_vars
    /\ [][calls' = calls \/ (calls = 0 /\ calls' = 1)]_vars

\* bind resolved to the AlreadyBound error after its one exchange
C14_Witness ==
    /\ phase = "Failed"
    /\ calls = 1
    /\ streams = 0
    /\ IsErr(bound)
    /\ reply.error = flat_BindError_AlreadyBound

\* C15: an IPv4 socket address packed as a = the 32-bit address, b = c = d = 0 and
\* the port is decoded by accept() as the V4 socket address it was, 0.0.0.0
\* included.
C15_Ipv4RoundTrip ==
    (addrIn.v = "V4" /\ addrOut # NoAddr) =>
        /\ IsZero32(packed.b) /\ IsZero32(packed.c) /\ IsZero32(packed.d)
        /\ addrOut.v = "V4"
        /\ addrOut.ip = addrIn.ip
        /\ addrOut.port = addrIn.port
        /\ addrOut = addrIn

\* 127.0.0.255:443 went through the wire
C15_Witness ==
    /\ addrIn = SocketAddrV4_new(<<127, 0, 0, 255>>, 443)
    /\ addrOut = SocketAddrV4_new(<<127, 0, 0, 255>>, 443)
    /\ packed.a = U32(32512, 255)

\* the last six groups of the address are not all zero
HighGroupsNonZero(ip) == \E i \in 3 .. 8 : ip[i] # 0

\* C16: an IPv6 socket address whose last six groups are not all zero, packed two
\* groups to a word with the earlier group in the high half, is decoded by
\* accept() as a V6 socket address with the same eight groups and port, and with
\* flow information and scope id zero.
C16_Ipv6RoundTrip ==
    (addrIn.v = "V6" /\ HighGroupsNonZero(addrIn.ip) /\ addrOut # NoAddr) =>
        /\ addrOut.v = "V6"
        /\ \A i \in 1 .. 8 : addrOut.ip[i] = addrIn.ip[i]
        /\ addrOut.port = addrIn.port
        /\ addrOut.flowinfo = 0
        /\ addrOut.scope_id = 0

\* 1:ffff:0:0:0:0:ffff:1 port 65535, sent with flow information 5
C16_Witness ==
    /\ addrIn = SocketAddrV6_new(<<1, 65535, 0, 0, 0, 0, 65535, 1>>, 65535, 5, 0)
    /\ addrOut = SocketAddrV6_new(<<1, 65535, 0, 0, 0, 0, 65535, 1>>, 65535, 0, 0)
    /\ packed.d = U32(65535, 1)

\* C17: split() takes the listener from Bound to Split for good: no step leaves
\* Split, none returns to Bound, split() cannot be called again, so one Acceptor
\* and one CloseStream exist from then on; an accept() made after the split is
\* the Acceptor's and never the Listener's.
C17_SplitIrreversible ==
    /\ [](pairs = IF phase = "Split" THEN 1 ELSE 0)
    /\ [](closeState # "none" <=> phase = "Split")
    /\ [](phase = "Split" => (~ENABLED Split /\ ~ENABLED ListenerAccept))
    /\ []((phase = "Split" /\ pc = "recv") => via = "Acceptor")
    /\ []((phase = "Bound" /\ pc = "recv") => via = "Listener")
    /\ [][phase = "Split" => phase' = "Split"]_vars
    /\ [][phase' = "Bound" => phase \in {"Unbound", "Bound"}]_vars
    /\ [][(phase = "Split" /\ pc' = "recv" /\ pc # "recv") => via' = "Acceptor"]_vars
    /\ [][pairs' # pairs => (phase = "Bound" /\ phase' = "Split" /\ pairs' = 1)]_vars

\* after a Listener::accept that returned a connection, the listener was split
\* and the Acceptor is accepting
C17_Witness ==
    /\ phase = "Split"
    /\ pairs = 1
    /\ pc = "recv"
    /\ via = "Acceptor"
    /\ IsOk(lastResult)
    /\ closeState = "held"

\* C18: accept() first asks for ACCEPT_SIZE bytes; after every delivery the
\* receptor reports ACCEPT_SIZE less the length accumulated, which is what was
\* reported before less the chunk; the accumulated length never exceeds
\* ACCEPT_SIZE, the reported value stays within 0 .. ACCEPT_SIZE, never
\* increases, and is 0 exactly when the record is complete and decoded.
C18_Backpressure ==
    /\ [][(pc # "recv" /\ pc' = "recv") =>
              (more' = ACCEPT_SIZE /\ Len(buffer') = 0)]_vars
    /\ [](InCall =>
             /\ buffer = taken
             /\ more = ACCEPT_SIZE - Len(taken)
             /\ Len(buffer) <= ACCEPT_SIZE
             /\ more \in 0 .. ACCEPT_SIZE
             /\ (more = 0 <=> Len(taken) = ACCEPT_SIZE)
             /\ (more = 0 <=> decodes = 1))
    /\ [][(pc = "recv" /\ pc' = "recv") =>
              /\ more' <= more
              /\ Len(taken') >= Len(taken)
              /\ Len(taken') - Len(taken) <= more
              /\ more' = more - (Len(taken') - Len(taken))]_vars

\* two chunks were delivered, 19 bytes in all, and 5 more are asked for
C18_Witness ==
    /\ pc = "recv"
    /\ pieces = 2
    /\ Len(buffer) = 19
    /\ more = 5

RECURSIVE WireOf(_)
\* the bytes of the records q, in order
WireOf(q) == IF q = <<>> THEN <<>> ELSE EncodeAccept(Head(q)) \o WireOf(Tail(q))

C20_ClosedOnlyBeforeFullRecord ==
    /\ FullRecord =>
           /\ ~IsClosedErr(CallResult)
           /\ got.error = flat_AcceptError_None => IsOk(CallResult)
           /\ got.error # flat_AcceptError_None =>
                  /\ IsErr(CallResult)
                  /\ AcceptError_kind(CallResult.val) = "Other"
                  /\ AcceptError_as_i16(CallResult.val) # flat_AcceptError_None
    /\ (pc = "resolved" /\ IsClosedErr(lastResult)) =>
           /\ Len(taken) < ACCEPT_SIZE
           /\ decodes = 0
           /\ chanClosed \/ hostEof
           /\ AcceptError_as_i16(lastResult.val) = flat_AcceptError_None

\* the record of 24 zero bytes, its code the None that also marks Closed, was
\* returned as a connection
C20_Witness ==
    /\ pc = "resolved"
    /\ FullRecord
    /\ \A i \in 1 .. ACCEPT_SIZE : taken[i] = 0
    /\ got.error = flat_AcceptError_None
    /\ IsOk(lastResult)

\* C21: the BindError bind resolves to on an empty reply has as_i16() equal to the
\* None code and kind Other; a BindError has that code exactly when the reply was
\* empty, so none made from a reply that is not empty has it; and bind resolves
\* to a Listener only from a reply that is not empty and whose error code is None.
C21_NoneCodeMeansEmptyReply ==
    /\ (phase # "Unbound" /\ reply.empty) =>
           /\ IsErr(bound)
           /\ BindError_as_i16(bound.val) = flat_BindError_None
           /\ BindError_kind(bound.val) = "Other"
    /\ (IsErr(bound) /\ BindError_as_i16(bound.val) = flat_BindError_None) =>
           (reply.empty /\ ~garbled)
    /\ (IsErr(bound) /\ ~reply.empty) =>
           /\ BindError_as_i16(bound.val) = reply.error
           /\ BindError_as_i16(bound.val) # flat_BindError_None
    /\ (phase # "Unbound" /\ reply.error # flat_BindError_None) => ~IsOk(bound)
    /\ IsOk(bound) => (~reply.empty /\ reply.error = flat_BindError_None)

\* bind resolved to the error with the None code, of kind Other, on an empty reply
C21_Witness ==
    /\ phase = "Failed"
    /\ reply.empty
    /\ IsErr(bound)
    /\ BindError_as_i16(bound.val) = flat_BindError_None
    /\ BindError_kind(bound.val) = "Other"
    /\ BindError_fmt(bound.val) = "0"

====
